---- MODULE Spec2Model ----
(***************************************************************************)
(* Model of the schema auto-migration engine of loopback-connector-sqlite3 *)
(* (autoupdate, _alterTable, createTable, executeSQL, beginTransaction,    *)
(* commit, rollback) running against one SQLite database file that is      *)
(* shared by the connector's default connection, the connections opened    *)
(* for transactions, and one foreign connection that only reads.           *)
(*                                                                         *)
(* The repository holds three generations of lib/migration.js:             *)
(*   "old" : src/unnamed/part_003    (no catalog query: autoupdate always  *)
(*           alters, inside a transaction it opens itself)                 *)
(*   "lib" : src/lib/migration.js    (catalog query and createTable on the *)
(*           default connection, _alterTable opens the transaction)        *)
(*   "tx"  : src/unnamed/part_004    (autoupdate opens the transaction,    *)
(*           checkAndCommit ends it)                                       *)
(* All are modelled; the variable variant selects the generation loaded.   *)
(*                                                                         *)
(* The database is a file (src/test/init.js), so all connections see the   *)
(* same committed content and a connection inside BEGIN EXCLUSIVE shuts    *)
(* out every other connection (SQLITE_BUSY).  The default connection is    *)
(* open when autoupdate is called (initialize connects).  Any driver       *)
(* operation may also fail through an injected backend fault.              *)
(*                                                                         *)
(* The value coercion layer and the column definition builder of           *)
(* lib/sqlite3.js (toColumnValue, fromColumnValue, _convertBoolean,        *)
(* _getDefaultClause, _buildColumnType, _buildColumnDefinition, the        *)
(* parameter loop of executeSQL) are operators over JavaScript values.     *)
(*                                                                         *)
(* Five specifications share the variables:                                *)
(*   Spec           : autoupdate of a list of models, no default declared  *)
(*   SpecDefaults   : autoupdate of one model whose property "y" declares  *)
(*                    a type and a sqlite3.dbDefault literal               *)
(*   SpecConcurrent : two autoupdate calls under way at the same time      *)
(*   SpecCoerce     : the pure functions: a property, or a property and a  *)
(*                    value, passed through _buildColumnDefinition or      *)
(*                    through toColumnValue, executeSQL and                *)
(*                    fromColumnValue; an identifier passed through        *)
(*                    escapeName; a model passed through                   *)
(*                    _buildColumnIndexes                                  *)
(*   SpecConnect    : connect and executeSQL called on a connector that    *)
(*                    has no default connection yet                        *)
(***************************************************************************)
EXTENDS Integers, Sequences, FiniteSets, TLC

\* ------------------------------------------------------------------ bounds
MaxModels == 2      \* longest list of models passed to one autoupdate call
MaxRows   == 1      \* most rows a table holds before the migration
MaxFaults == 2      \* most backend faults injected into one autoupdate call

\* ------------------------------------------------------- names and values
NoErr  == ""
NoConn == -1
DefaultConn == 0

Variants   == {"old", "lib", "tx"}
Registered == {"a", "b"}                  \* keys of self._models
ModelNames == Registered \cup {"xyz"}     \* "xyz" is in no registry

\* property lists (declaration order) a model definition may carry
PropChoices == { <<"id", "x">>, <<"id", "x", "y">>, <<"id", "y">> }
IndexedProps == {"x"}                     \* properties declared index: true

TName(m)   == <<m, "">>                   \* table of a model
OldName(m) == <<m, "_old">>               \* table <model>_old
TableNames == {TName(m) : m \in Registered} \cup {OldName(m) : m \in Registered}
IndexNames == {<<m, p>> : m \in Registered, p \in IndexedProps}
NoName     == <<"", "">>

NULL     == [k |-> "null", c |-> "", i |-> 0]
Val(c, i) == [k |-> "val", c |-> c, i |-> i]   \* value stored in column c of row i
Lit(p)   == [k |-> "lit", c |-> p, i |-> 0]    \* the string literal 'p'

NoTable == [exists |-> FALSE, cols |-> <<>>, rows |-> <<>>]
MkTable(cols, n) ==
  [exists |-> TRUE, cols |-> cols,
   rows |-> [i \in 1..n |-> [j \in 1..Len(cols) |-> Val(cols[j], i)]]]

EmptyDb == [tbl |-> [t \in TableNames |-> NoTable],
            idx |-> [x \in IndexNames |-> NoName]]

RECURSIVE IndexOf(_, _)
IndexOf(s, e) ==
  IF s = <<>> THEN 0
  ELSE IF Head(s) = e THEN 1
  ELSE LET r == IndexOf(Tail(s), e) IN IF r = 0 THEN 0 ELSE r + 1

Range(s) == {s[i] : i \in 1..Len(s)}

\* --------------------------------------------------------- JavaScript values
\* a value: its kind t, its number n (numbers, booleans as 1/0, dates as
\* milliseconds since epoch) and its text s (strings, the name of a
\* structure, the message of an error)
JsNum(n)  == [t |-> "number", n |-> n, s |-> ""]
JsNaN     == [t |-> "number", n |-> 0, s |-> "NaN"]
JsStr(x)  == [t |-> "string", n |-> 0, s |-> x]
JsBool(b) == [t |-> "boolean", n |-> IF b THEN 1 ELSE 0, s |-> ""]
JsNull    == [t |-> "null", n |-> 0, s |-> ""]
JsUndefined == [t |-> "undefined", n |-> 0, s |-> ""]
JsDate(ms) == [t |-> "date", n |-> ms, s |-> ""]
JsObj(x)  == [t |-> "object", n |-> 0, s |-> x]
JsArr(x)  == [t |-> "array", n |-> 0, s |-> x]
JsError(msg) == [t |-> "Error", n |-> 0, s |-> msg]
InvalidParam(msg) == [t |-> "InvalidParam", n |-> 0, s |-> msg]
\* an exception thrown instead of a value returned
JsThrow(msg) == [t |-> "throw", n |-> 0, s |-> msg]

\* the decimal texts and the numbers they denote
NumStr == [x \in {"0", "1", "5", "10", "1000", "1500"} |->
             CASE x = "0" -> 0 [] x = "1" -> 1 [] x = "5" -> 5
               [] x = "10" -> 10 [] x = "1000" -> 1000 [] x = "1500" -> 1500]
\* the strings moment() parses as a date, with their time in milliseconds
DateStr == [x \in {"1970-01-01T00:00:01.500Z"} |-> 1500]
\* JSON.stringify of the structures
JsonText == [x \in {"{val:2}", "{lat:1,lng:2}", "[1,2]", "{at:Date(1500)}"} |->
               CASE x = "{val:2}" -> "{\"val\":2}"
                 [] x = "{lat:1,lng:2}" -> "{\"lat\":1,\"lng\":2}"
                 [] x = "[1,2]" -> "[1,2]"
                 [] x = "{at:Date(1500)}"
                      -> "{\"at\":\"1970-01-01T00:00:01.500Z\"}"]
\* JSON.parse of the texts that denote a structure
JsonValue == [x \in {"{\"val\":2}", "{\"lat\":1,\"lng\":2}", "[1,2]",
                     "{\"at\":\"1970-01-01T00:00:01.500Z\"}"} |->
                CASE x = "{\"val\":2}" -> JsObj("{val:2}")
                  [] x = "{\"lat\":1,\"lng\":2}" -> JsObj("{lat:1,lng:2}")
                  [] x = "[1,2]" -> JsArr("[1,2]")
                  [] x = "{\"at\":\"1970-01-01T00:00:01.500Z\"}"
                       -> JsObj("{at:'1970-01-01T00:00:01.500Z'}")]

NumText(n) == CHOOSE x \in DOMAIN NumStr : NumStr[x] = n

\* String(value) and the text used when a value is concatenated to a string
StringOf(v) ==
  CASE v.t = "string"  -> v
    [] v.t = "number"  -> JsStr(IF v.s = "NaN" THEN "NaN" ELSE NumText(v.n))
    [] v.t = "boolean" -> JsStr(IF v.n = 1 THEN "true" ELSE "false")
    [] v.t = "null"    -> JsStr("null")
    [] v.t = "undefined" -> JsStr("undefined")
    [] v.t = "date"    -> JsStr("Thu Jan 01 1970 00:00:01 GMT+0000")
    [] v.t = "object"  -> JsStr("[object Object]")
    [] v.t = "array"   -> JsStr("1,2")
    [] v.t = "Error"   -> JsStr("Error: " \o v.s)
    [] OTHER           -> JsStr("[object Object]")

\* Number(value)
ToNumber(v) ==
  CASE v.t = "number" -> v
    [] v.t = "string" -> IF v.s \in DOMAIN NumStr THEN JsNum(NumStr[v.s])
                         ELSE IF v.s = "" THEN JsNum(0) ELSE JsNaN
    [] v.t \in {"boolean", "date"} -> JsNum(v.n)
    [] v.t = "null" -> JsNum(0)
    [] OTHER -> JsNaN

\* the global isNaN(value)
IsNaN(v) == ToNumber(v) = JsNaN

\* the truth value of a value in a condition
Truthy(v) ==
  CASE v.t = "string"  -> v.s # ""
    [] v.t = "number"  -> v.s # "NaN" /\ v.n # 0
    [] v.t = "boolean" -> v.n = 1
    [] v.t \in {"null", "undefined"} -> FALSE
    [] OTHER -> TRUE

\* moment(value).isValid() and moment(value).unix() * 1000 for a string
MomentIsValid(v) == v.s \in DOMAIN DateStr
MomentUnixMs(v) ==
  IF MomentIsValid(v) THEN JsNum((DateStr[v.s] \div 1000) * 1000) ELSE JsNaN

\* JSON.stringify(value)
JsonStringify(v) ==
  CASE v.t \in {"object", "array"} -> JsStr(JsonText[v.s])
    [] v.t = "string" -> JsStr("\"" \o v.s \o "\"")
    [] v.t = "date"   -> JsStr("\"1970-01-01T00:00:01.500Z\"")
    [] v.t = "number" /\ v.s = "NaN" -> JsStr("null")
    [] OTHER -> StringOf(v)

\* JSON.parse(value): the argument is converted to a string first; a text
\* that is no JSON makes it throw
JsonParse(v) ==
  LET x == StringOf(v).s
  IN  IF x \in DOMAIN JsonValue THEN JsonValue[x]
      ELSE IF x \in DOMAIN NumStr THEN JsNum(NumStr[x])
      ELSE IF x \in {"true", "false"} THEN JsBool(x = "true")
      ELSE IF x = "null" THEN JsNull
      ELSE JsThrow("SyntaxError")

\* ------------------------------------------------------- value coercion
PropertyTypes == {"Number", "Boolean", "Date", "String", "GeoPoint", "Point",
                  "List", "Array", "Object", "JSON", "ModelConstructor",
                  "Custom"}

\* a property descriptor of a model definition: its type name, the flags
\* id, required and null, the column metadata sqlite3.dataType and
\* sqlite3.dataLength, and sqlite3.dbDefault
Property(type, id, required, null, dataType, dataLength, dbDefault) ==
  [type |-> type, id |-> id, required |-> required, null |-> null,
   dataType |-> dataType, dataLength |-> dataLength, dbDefault |-> dbDefault]

\* sqlite3.js:367-376
ConvertBoolean(value) ==
  IF \/ value.t = "string" /\ value.s \in {"t", "T", "y", "Y", "1"}
     \/ value = JsNum(1) \/ value = JsBool(TRUE)
  THEN JsNum(1)
  ELSE IF \/ value.t = "string" /\ value.s \in {"f", "F", "n", "N", "0"}
          \/ value = JsNum(0) \/ value = JsBool(FALSE)
  THEN JsNum(0)
  ELSE JsError("SQLITE3: Invalid boolean default")

\* part_002:598-600: new ParameterizedSQL('DEFAULT'), the marker the earlier
\* generation of the connector returned for an identifier without a value
DefaultMarker == [t |-> "ParameterizedSQL", n |-> 0, s |-> "DEFAULT"]

\* sqlite3.js:514-516: a null or undefined value becomes null whatever the
\* property is
NullValueMarked(property) ==
  IF property.id THEN DefaultMarker ELSE JsNull
NullValue(property) == JsNull

\* sqlite3.js:543-551: the Date branch of toColumnValue
DateColumnValue(value) ==
  IF ~IsNaN(value) THEN ToNumber(value)
  ELSE IF value.t = "string" /\ ~MomentIsValid(value) THEN MomentUnixMs(value)
  ELSE InvalidParam("SQLITE3: Invalid JSON")

\* sqlite3.js:513-556; the property descriptor is always given here, so the
\* `!property` exit at 517-519 is never taken
ToColumnValue(property, value) ==
  IF value.t \in {"null", "undefined"} THEN NullValue(property)
  ELSE CASE property.type = "Number" ->
              IF IsNaN(value) THEN InvalidParam("SQLITE3: Invalid number")
              ELSE ToNumber(value)
         [] property.type = "Boolean" -> ConvertBoolean(value)
         [] property.type = "String" -> value
         [] property.type \in {"GeoPoint", "Point", "List", "Object",
                               "ModelConstructor"} -> JsonStringify(value)
         [] property.type = "JSON" ->
              IF JsonParse(value).t = "throw"
              THEN InvalidParam("SQLITE3: Invalid JSON")
              ELSE StringOf(value)
         [] property.type = "Date" -> DateColumnValue(value)
         [] OTHER -> value

\* sqlite3.js:558-587
FromColumnValueText(property, value) ==
  IF value = JsNull THEN value
  ELSE CASE property.type = "Number" -> ToNumber(value)
         [] property.type = "Boolean" -> JsBool(value.t = "string"
                                                /\ value.s \in {"Y", "T"})
         [] property.type \in {"String", "JSON"} -> StringOf(value)
         [] property.type \in {"GeoPoint", "Point", "List", "Array", "Object",
                               "ModelConstructor"} -> JsonParse(value)
         [] property.type = "Date" -> JsDate(ToNumber(value).n)
         [] OTHER -> value
FromColumnValue(property, value) ==
  IF value = JsNull THEN value
  ELSE CASE property.type = "Number" -> ToNumber(value)
         [] property.type = "Boolean" ->
              JsBool(\/ value.t = "string" /\ value.s \in {"Y", "y", "T", "t", "1"}
                     \/ value = JsNum(1))
         [] property.type \in {"String", "JSON"} -> StringOf(value)
         [] property.type \in {"GeoPoint", "Point", "List", "Array", "Object",
                               "ModelConstructor"} -> JsonParse(value)
         [] property.type = "Date" -> JsDate(ToNumber(value).n)
         [] OTHER -> value

\* sqlite3.js:146-152: executeSQL replaces every InvalidParam by null
SanitizeParams(params) ==
  [i \in DOMAIN params |->
     IF params[i].t = "InvalidParam" THEN JsNull ELSE params[i]]

\* what a column holds after the driver bound the parameter v: NaN and
\* undefined are stored as NULL, a boolean or a date as its number, any other
\* object as the text of its toString()
DriverStore(v) ==
  CASE v.t = "number" -> IF v.s = "NaN" THEN JsNull ELSE v
    [] v.t \in {"string", "null"} -> v
    [] v.t = "undefined" -> JsNull
    [] v.t \in {"boolean", "date"} -> JsNum(v.n)
    [] OTHER -> StringOf(v)

\* ---------------------------------------------------- column definitions
\* SQL text is a sequence of pieces; the piece " " separates words, pieces
\* that follow each other without it run together into one word
Clause(err, text) == [err |-> err, text |-> text]
Blank == " "
NowExpr == "(CAST(STRFTIME('%s', 'now') AS INTEGER)*1000)"

\* sqlite3.js:378-415
GetDefaultClause(property) ==
  LET value == property.dbDefault
  IN  IF ~Truthy(value) THEN Clause(NoErr, <<>>)
      ELSE CASE property.type = "Number" ->
                  IF IsNaN(value) THEN Clause("Invalid numeric default", <<>>)
                  ELSE Clause(NoErr, <<Blank, "DEFAULT", Blank,
                                       StringOf(ToNumber(value)).s>>)
             [] property.type = "Boolean" ->
                  Clause(NoErr, <<"DEFAULT", Blank,
                                  StringOf(ConvertBoolean(value)).s>>)
             [] property.type = "Date" ->
                  IF value = JsStr("now")
                  THEN Clause(NoErr, <<Blank, "DEFAULT", Blank, NowExpr>>)
                  ELSE IF ~IsNaN(value)
                  THEN Clause(NoErr, <<Blank, "DEFAULT", Blank,
                                       StringOf(value).s>>)
                  ELSE IF value.t = "string" /\ ~MomentIsValid(value)
                  THEN Clause(NoErr, <<Blank, "DEFAULT", Blank,
                                       StringOf(MomentUnixMs(value)).s>>)
                  ELSE Clause("Invalid date default", <<>>)
             [] property.type = "String" ->
                  Clause(NoErr, <<"DEFAULT", Blank, "\"",
                                  StringOf(value).s, "\"">>)
             [] OTHER -> Clause("Default value is not supported", <<>>)

\* sqlite3.js:435-458
BuildColumnTypeReal(property) ==
  CASE property.type \in {"Number", "Date"} -> "REAL"
    [] property.type = "Boolean" -> "INTEGER"
    [] OTHER -> "TEXT"
BuildColumnType(property) ==
  CASE property.type = "Number" -> IF property.id THEN "INTEGER" ELSE "REAL"
    [] property.type \in {"Boolean", "Date"} -> "INTEGER"
    [] OTHER -> "TEXT"

\* sqlite3.js:417-433: the declared column type is used only when a length
\* comes with it
ColumnDataType(property) ==
  IF property.dataType # "" /\ property.dataLength # 0
  THEN <<property.dataType, "(", NumText(property.dataLength), ")">>
  ELSE <<BuildColumnType(property)>>

\* sqlite3.js:362: isNullable of the SqlConnector base class
IsNullable(property) ==
  IF property.required \/ property.id THEN FALSE
  ELSE property.null # "false"

\* sqlite3.js:352-365
BuildColumnDefinition(name, property) ==
  LET defaultClause == GetDefaultClause(property)
  IN  IF defaultClause.err # NoErr THEN defaultClause
      ELSE Clause(NoErr,
             <<"\"", name, "\"", Blank>> \o ColumnDataType(property)
               \o defaultClause.text
               \o (IF IsNullable(property) THEN <<>>
                   ELSE <<Blank, "NOT", Blank, "NULL">>)
               \o (IF property.id THEN <<Blank, "PRIMARY", Blank, "KEY">>
                   ELSE <<>>))

\* the words of a text
RECURSIVE SplitWords(_, _)
SplitWords(text, cur) ==
  LET done == IF cur = <<>> THEN <<>> ELSE <<cur>>
  IN  IF text = <<>> THEN done
      ELSE IF Head(text) = Blank THEN done \o SplitWords(Tail(text), <<>>)
      ELSE SplitWords(Tail(text), Append(cur, Head(text)))

\* SQLite's grammar of a column definition: a name, a type name of any
\* number of identifiers, then column constraints.  A word that is no
\* identifier cannot belong to the type name; DEFAULT takes a number, a
\* parenthesised expression, a string or an identifier (read as a string).
Keywords == {"DEFAULT", "NOT", "NULL", "PRIMARY", "KEY"}
IsName(piece) ==
  /\ piece \notin DOMAIN NumStr
  /\ piece \notin {NowExpr, "(", ")", "\"", "",
                   "Error: SQLITE3: Invalid boolean default"}
IsIds(w) ==
  /\ w # <<>>
  /\ ~(Len(w) = 1 /\ w[1] \in Keywords)
  /\ \/ IsName(w[1])
     \/ Len(w) = 3 /\ w[1] = "\"" /\ w[3] = "\""
IsDefaultValue(w) ==
  \/ Len(w) = 1 /\ (w[1] \in DOMAIN NumStr \/ w[1] = NowExpr \/ IsName(w[1]))
  \/ Len(w) = 3 /\ w[1] = "\"" /\ w[3] = "\""

RECURSIVE SkipTypeName(_)
SkipTypeName(ws) ==
  IF ws # <<>> /\ IsIds(Head(ws)) THEN SkipTypeName(Tail(ws)) ELSE ws

RECURSIVE ConstraintsParse(_)
ConstraintsParse(ws) ==
  IF ws = <<>> THEN TRUE
  ELSE IF Len(ws) < 2 THEN FALSE
  ELSE LET rest == SubSeq(ws, 3, Len(ws))
       IN  CASE ws[1] = <<"DEFAULT">> ->
                  IsDefaultValue(ws[2]) /\ ConstraintsParse(rest)
             [] ws[1] = <<"NOT">> ->
                  ws[2] = <<"NULL">> /\ ConstraintsParse(rest)
             [] ws[1] = <<"PRIMARY">> ->
                  ws[2] = <<"KEY">> /\ ConstraintsParse(rest)
             [] OTHER -> FALSE

ColumnDefParses(text) ==
  LET ws == SplitWords(text, <<>>)
  IN  /\ ws # <<>>
      /\ Len(ws[1]) = 3 /\ ws[1][1] = "\"" /\ ws[1][3] = "\""
      /\ ConstraintsParse(SkipTypeName(Tail(ws)))

\* ------------------------------------------------------------ identifiers
\* an identifier is the sequence of its characters
Quote == "\""

\* sqlite3.js:232-239 escapeName: a falsy (empty) name is returned as it is;
\* the result of name.replace(/["]/g, '""') is not assigned, so the name is
\* wrapped in double quotes unchanged
EscapeName(name) ==
  IF name = <<>> THEN name ELSE <<Quote>> \o name \o <<Quote>>

\* String.prototype.toLowerCase
ToLowerCase(name) ==
  [n \in 1..Len(name) |->
     CASE name[n] = "A" -> "a" [] name[n] = "B" -> "b" [] name[n] = "E" -> "e"
       [] name[n] = "I" -> "i" [] name[n] = "U" -> "u" [] OTHER -> name[n]]

\* String.prototype.trim
RECURSIVE Trim(_)
Trim(name) ==
  IF name = <<>> THEN name
  ELSE IF Head(name) = Blank THEN Trim(Tail(name))
  ELSE IF name[Len(name)] = Blank THEN Trim(SubSeq(name, 1, Len(name) - 1))
  ELSE name

\* String.prototype.split(','): the pieces between the commas
RECURSIVE Split(_, _)
Split(text, cur) ==
  IF text = <<>> THEN <<cur>>
  ELSE IF Head(text) = "," THEN <<cur>> \o Split(Tail(text), <<>>)
  ELSE Split(Tail(text), Append(cur, Head(text)))

\* Array.prototype.join
RECURSIVE Join(_, _)
Join(names, sep) ==
  IF names = <<>> THEN <<>>
  ELSE IF Len(names) = 1 THEN names[1]
  ELSE names[1] \o <<sep>> \o Join(Tail(names), sep)

\* sqlite3.js:220-225 dbName
DbName(name) == IF name = <<>> THEN name ELSE ToLowerCase(name)

\* sqlite3.js:466-468: escape() of _buildColumnIndexes
EscapeLower(name) == EscapeName(ToLowerCase(name))

\* tableEscaped of the SqlConnector base class: the escaped table name, which
\* is dbName of the model name
TableEscaped(model) == EscapeName(DbName(model))

\* sqlite3.js:474-477, 504-507: the text of one index statement
IndexSql(name, model, columns) ==
  <<"CREATE INDEX IF NOT EXISTS ">> \o EscapeLower(name) \o <<" ON ">>
    \o TableEscaped(model) \o <<" (">>
    \o Join([i \in 1..Len(columns) |-> EscapeLower(columns[i])], ",")
    \o <<")">>

\* a declaration of settings.indexes: name, the columns string (empty when
\* not given) and keys ("none", an "array" of names or an "object" whose own
\* keys are the names)
IndexDecl(name, columns, kind, keys) ==
  [name |-> name, columns |-> columns, kind |-> kind, keys |-> keys]

\* the value of `var columns`: undefined or an array of names
NoColumns == [def |-> FALSE, names |-> <<>>]
Columns(names) == [def |-> TRUE, names |-> names]

\* sqlite3.js:470-478: one statement per property flagged index
PropertyIndexes(model, properties) ==
  LET flagged == SelectSeq(properties, LAMBDA p : p.name # <<>> /\ p.index)
  IN  [i \in 1..Len(flagged) |->
         IndexSql(model \o <<"_">> \o flagged[i].name, model,
                  <<flagged[i].name>>)]

\* sqlite3.js:479-509: the loop over settings.indexes.  `var columns` is
\* declared in the loop body but is scoped to the function and is not
\* reset, so an iteration that assigns nothing finds the (already
\* normalised) array of the iteration before it.
RECURSIVE NamedIndexes(_, _, _)
NamedIndexes(model, indexes, columns) ==
  IF indexes = <<>> THEN <<>>
  ELSE LET index == Head(indexes)
           found == IF index.columns # <<>>
                    THEN Columns(Split(index.columns, <<>>))
                    ELSE IF index.kind # "none" THEN Columns(index.keys)
                    ELSE columns
           named == Columns([i \in 1..Len(found.names) |->
                               Trim(DbName(found.names[i]))])
       IN  IF index.name = <<>> THEN NamedIndexes(model, Tail(indexes), columns)
           ELSE IF ~found.def THEN NamedIndexes(model, Tail(indexes), found)
           ELSE <<IndexSql(index.name, model, named.names)>>
                  \o NamedIndexes(model, Tail(indexes), named)

\* sqlite3.js:460-511 _buildColumnIndexes, as the text of its statements
BuildColumnIndexesSql(model, properties, indexes) ==
  PropertyIndexes(model, properties)
    \o NamedIndexes(model, indexes, NoColumns)

\* ------------------------------------------------------- the SQL statements
\* a statement of the migration: op, the model it is about, and for an index
\* statement the indexed property
Stmt(op, m, p) == [op |-> op, m |-> m, p |-> p]

\* sqlite3.js:460-478: one CREATE INDEX IF NOT EXISTS <model>_<property> per
\* property flagged index, in declaration order
BuildColumnIndexes(m, props) ==
  LET flagged == SelectSeq(props, LAMBDA p : p \in IndexedProps)
  IN  [i \in 1..Len(flagged) |-> Stmt("INDEX", m, flagged[i])]

\* sqlite3.js:340-350: the column definitions of a model, or the first Error
\* one of them produced
RECURSIVE BuildColumnDefinitions(_, _)
BuildColumnDefinitions(props, prop) ==
  IF props = <<>> THEN [err |-> NoErr, cols |-> <<>>]
  ELSE LET colDef == BuildColumnDefinition(Head(props), prop[Head(props)])
           rest == BuildColumnDefinitions(Tail(props), prop)
       IN  IF colDef.err # NoErr THEN [err |-> colDef.err, cols |-> <<>>]
           ELSE IF rest.err # NoErr THEN rest
           ELSE [err |-> NoErr, cols |-> <<colDef.text>> \o rest.cols]

\* sqlite3.js:328-333: CREATE TABLE followed by the index statements
CreateTableStmts(m, props) ==
  <<Stmt("CREATE", m, "")>> \o BuildColumnIndexes(m, props)

\* ------------------------------------------------- the database engine
\* What one statement does to a database image db; props is the property
\* list of the model, cols the column definitions in the text of its CREATE
\* TABLE, dqs tells whether the engine build falls back to a string literal
\* for a double-quoted name that is no column.
SqlResult(e, db, n) == [err |-> e, db |-> db, n |-> n]

SqlSelect(db, m) ==
  SqlResult(NoErr, db, IF db.tbl[TName(m)].exists THEN 1 ELSE 0)

SqlRename(db, m) ==
  IF ~db.tbl[TName(m)].exists THEN SqlResult("no such table", db, 0)
  ELSE IF db.tbl[OldName(m)].exists THEN SqlResult("table exists", db, 0)
  ELSE SqlResult(NoErr,
         [tbl |-> [db.tbl EXCEPT ![OldName(m)] = db.tbl[TName(m)],
                                 ![TName(m)] = NoTable],
          idx |-> [x \in IndexNames |->
                     IF db.idx[x] = TName(m) THEN OldName(m) ELSE db.idx[x]]],
         0)

SqlCreate(db, m, props, cols) ==
  IF \E j \in 1..Len(cols) : ~ColumnDefParses(cols[j])
  THEN SqlResult("syntax error", db, 0)
  ELSE IF db.tbl[TName(m)].exists THEN SqlResult("table exists", db, 0)
  ELSE SqlResult(NoErr,
         [db EXCEPT !.tbl[TName(m)] =
            [exists |-> TRUE, cols |-> props, rows |-> <<>>]], 0)

\* CREATE INDEX IF NOT EXISTS: index names are global to the database, an
\* index of that name on any table makes the statement a no-op
SqlIndex(db, m, p) ==
  IF db.idx[<<m, p>>] # NoName THEN SqlResult(NoErr, db, 0)
  ELSE IF ~db.tbl[TName(m)].exists THEN SqlResult("no such table", db, 0)
  ELSE IF p \notin Range(db.tbl[TName(m)].cols)
       THEN SqlResult("no such column", db, 0)
  ELSE SqlResult(NoErr, [db EXCEPT !.idx[<<m, p>>] = TName(m)], 0)

\* INSERT INTO <model> SELECT <props> FROM <model>_old
SqlCopy(db, m, props, dqs) ==
  LET new == db.tbl[TName(m)]
      old == db.tbl[OldName(m)]
      missing == {p \in Range(props) : p \notin Range(old.cols)}
      pick(i, j) == LET c == IndexOf(old.cols, props[j])
                    IN  IF c = 0 THEN Lit(props[j]) ELSE old.rows[i][c]
  IN  IF ~new.exists \/ ~old.exists THEN SqlResult("no such table", db, 0)
      ELSE IF missing # {} /\ ~dqs THEN SqlResult("no such column", db, 0)
      ELSE IF Len(props) # Len(new.cols)
           THEN SqlResult("column count mismatch", db, 0)
      ELSE SqlResult(NoErr,
             [db EXCEPT !.tbl[TName(m)].rows =
                new.rows \o [i \in 1..Len(old.rows) |->
                               [j \in 1..Len(props) |-> pick(i, j)]]],
             Len(old.rows))

\* DROP TABLE <model>_old removes the table and the indexes on it
SqlDrop(db, m) ==
  IF ~db.tbl[OldName(m)].exists THEN SqlResult("no such table", db, 0)
  ELSE SqlResult(NoErr,
         [tbl |-> [db.tbl EXCEPT ![OldName(m)] = NoTable],
          idx |-> [x \in IndexNames |->
                     IF db.idx[x] = OldName(m) THEN NoName ELSE db.idx[x]]],
         0)

Sql(db, s, props, cols, dqs) ==
  CASE s.op = "SELECT" -> SqlSelect(db, s.m)
    [] s.op = "RENAME" -> SqlRename(db, s.m)
    [] s.op = "CREATE" -> SqlCreate(db, s.m, props, cols)
    [] s.op = "INDEX"  -> SqlIndex(db, s.m, s.p)
    [] s.op = "COPY"   -> SqlCopy(db, s.m, props, dqs)
    [] s.op = "DROP"   -> SqlDrop(db, s.m)

\* the error an injected backend fault produces for an operation
FaultErr(op) ==
  CASE op = "open"     -> "SQLITE_CANTOPEN"
    [] op = "BEGIN"    -> "fault in BEGIN"
    [] op = "SELECT"   -> "fault in SELECT"
    [] op = "RENAME"   -> "fault in RENAME"
    [] op = "CREATE"   -> "fault in CREATE"
    [] op = "INDEX"    -> "fault in INDEX"
    [] op = "COPY"     -> "fault in COPY"
    [] op = "DROP"     -> "fault in DROP"
    [] op = "COMMIT"   -> "fault in COMMIT"
    [] op = "ROLLBACK" -> "fault in ROLLBACK"
    [] op = "STMT"     -> "fault in STMT"

\* ------------------------------------------------------------------ state
VARIABLES
  variant,   \* generation of lib/migration.js that is loaded
  dqs,       \* engine build option: double-quoted string literal fallback
  models,    \* the list of model names passed to autoupdate
  defs,      \* self._models: model name -> property list
  conn,      \* connection id -> "none" | "open" | "closed"
  lock,      \* connection holding the EXCLUSIVE transaction, or NoConn
  disk,      \* committed content of the database file
  work,      \* uncommitted image of the connection holding the lock
  pend,      \* asynchronous operations whose callback has not yet run
  results,   \* done(err) calls of the eachSeries iteratee, in order
  final,     \* errors passed to autoupdate's callback, one per call
  log,       \* driver operations carried out, in order
  faults,    \* number of backend faults injected so far
  pre,       \* database content when the current model's iteratee started
  seen,      \* last read of the foreign connection during an alteration
  dbDefault, \* type and sqlite3.dbDefault declared for the property "y"
  call,      \* a value or a property on its way through the coercion layer
  calls,     \* the calls made to the connector's interface, in order
  defaultConnection  \* self._defaultConnection, NoConn while it is not set

vars == <<variant, dqs, models, defs, conn, lock, disk, work, pend, results,
          final, log, faults, pre, seen, dbDefault, call, calls,
          defaultConnection>>

config == <<variant, dqs, models, defs, dbDefault, call, calls,
            defaultConnection>>

\* the descriptors of the properties of the models: id is the Number
\* identifier, x a String, y has the declared type and default
NoDefault == [type |-> "String", lit |-> JsUndefined]
Properties ==
  [name \in {"id", "x", "y"} |->
     CASE name = "id" -> Property("Number", TRUE, FALSE, "unset", "", 0,
                                  JsUndefined)
       [] name = "x"  -> Property("String", FALSE, FALSE, "unset", "", 0,
                                  JsUndefined)
       [] name = "y"  -> Property(dbDefault.type, FALSE, FALSE, "unset", "", 0,
                                  dbDefault.lit)]

\* buildColumnDefinitions(model)
ColDefs(m) == BuildColumnDefinitions(defs[m], Properties)

\* connection opened for the transaction of the k-th model of the list
TxConn(k) == k
ConnIds == 0..MaxModels

\* a pending asynchronous operation: op on connection c for the k-th model;
\* path is "create" or "alter" once the branch is chosen, t the position in
\* async.series, j the position in createTable's statement list, e the
\* error captured by the closure that waits for a ROLLBACK
Pending(op, c, k, path, t, j, e) ==
  [op |-> op, c |-> c, k |-> k, path |-> path, t |-> t, j |-> j, e |-> e]

ModelSeqs == UNION {[1..n -> ModelNames] : n \in 1..MaxModels}

NothingSeen == [busy |-> TRUE, m |-> "", t |-> NoTable, old |-> FALSE,
                was |-> NoTable]

\* a table as an earlier createTable of a model with property list cols
\* left it, holding n rows
InitDb(acols, an, bexists) ==
  [tbl |-> [t \in TableNames |->
              IF t = TName("a") /\ acols # <<>> THEN MkTable(acols, an)
              ELSE IF t = TName("b") /\ bexists THEN MkTable(<<"id">>, 0)
              ELSE NoTable],
   idx |-> [x \in IndexNames |->
              IF x[1] = "a" /\ x[2] \in Range(acols) THEN TName("a")
              ELSE NoName]]

\* no value is on its way through the coercion layer
NoCall == [stage |-> "none",
           prop |-> Property("String", FALSE, FALSE, "unset", "", 0,
                             JsUndefined),
           arg |-> JsUndefined, def |-> Clause(NoErr, <<>>),
           out |-> JsUndefined, pos |-> 0, params |-> <<>>, bound |-> <<>>,
           back |-> JsUndefined, name |-> <<>>, esc |-> <<>>,
           properties |-> <<>>, indexes |-> <<>>, stmts |-> <<>>]

\* autoupdate is called with one of the lists seqs while "y" is declared
\* with one of dflts
InitWith(seqs, dflts) ==
  /\ calls = <<"autoupdate">>
  /\ defaultConnection = DefaultConn
  /\ variant \in Variants
  /\ dqs \in BOOLEAN
  /\ models \in seqs
  /\ dbDefault \in dflts
  /\ call = NoCall
  /\ \E pa \in PropChoices : defs = [m \in Registered |->
                                       IF m = "a" THEN pa ELSE <<"id">>]
  /\ conn = [c \in ConnIds |-> IF c = DefaultConn THEN "open" ELSE "none"]
  /\ lock = NoConn
  /\ \E acols \in PropChoices \cup {<<>>}, an \in 0..MaxRows,
        bexists \in BOOLEAN :
        /\ (acols = <<>> => an = 0)
        /\ disk = InitDb(acols, an, bexists)
  /\ work = EmptyDb
  /\ pend = {Pending("iter", NoConn, 1, "", 0, 0, NoErr)}
  /\ results = <<>>
  /\ final = <<>>
  /\ log = <<>>
  /\ faults = 0
  /\ pre = disk
  /\ seen = NothingSeen

Init == InitWith(ModelSeqs, {NoDefault})

\* ------------------------------------------------ connections and locking
FaultChoices == IF faults < MaxFaults THEN BOOLEAN ELSE {FALSE}

\* connection c runs statement s (Database.run / Database.all): refused on a
\* closed handle, SQLITE_BUSY while another connection holds the EXCLUSIVE
\* lock, inside c's transaction when c holds it, autocommitted otherwise
Run(c, s, fault) ==
  LET inTx == lock = c
      r == Sql(IF inTx THEN work ELSE disk, s, defs[s.m], ColDefs(s.m).cols,
               dqs)
      fail(e, inj) == [err |-> e, disk |-> disk, work |-> work, n |-> 0,
                       injected |-> inj]
  IN  IF conn[c] # "open" THEN fail("SQLITE_MISUSE", FALSE)
      ELSE IF lock # NoConn /\ ~inTx THEN fail("SQLITE_BUSY", FALSE)
      ELSE IF fault THEN fail(FaultErr(s.op), TRUE)
      ELSE IF r.err # NoErr THEN fail(r.err, FALSE)
      ELSE [err |-> NoErr,
            disk |-> IF inTx THEN disk ELSE r.db,
            work |-> IF inTx THEN r.db ELSE work,
            n |-> r.n, injected |-> FALSE]

\* connection c runs BEGIN EXCLUSIVE TRANSACTION, COMMIT or ROLLBACK; a
\* failed COMMIT or ROLLBACK leaves the transaction open
TxRun(c, op, fault) ==
  LET fail(e, inj) == [err |-> e, lock |-> lock, disk |-> disk,
                       work |-> work, injected |-> inj]
  IN  IF conn[c] # "open" THEN fail("SQLITE_MISUSE", FALSE)
      ELSE IF op = "BEGIN" THEN
        IF lock = c THEN fail("transaction within a transaction", FALSE)
        ELSE IF lock # NoConn THEN fail("SQLITE_BUSY", FALSE)
        ELSE IF fault THEN fail(FaultErr(op), TRUE)
        ELSE [err |-> NoErr, lock |-> c, disk |-> disk, work |-> disk,
              injected |-> FALSE]
      ELSE
        IF lock # c THEN fail("no transaction is active", FALSE)
        ELSE IF fault THEN fail(FaultErr(op), TRUE)
        ELSE [err |-> NoErr, lock |-> NoConn,
              disk |-> IF op = "COMMIT" THEN work ELSE disk,
              work |-> work, injected |-> FALSE]

\* Database.close: an open transaction of the handle is rolled back
CloseLock(c, l) == IF l = c THEN NoConn ELSE l

\* an entry of the log: operation op on connection c for the k-th model
\* ended with error e (NoErr when it succeeded)
Event(op, c, k, e) == [op |-> op, c |-> c, k |-> k, e |-> e]

\* -------------------------------------------------------- the control flow
Cont(add, res, fin) == [add |-> add, results |-> res, final |-> fin]
Issue(p) == Cont({p}, results, final)

\* the position of the last model of the list that holds the k-th model: one
\* autoupdate call gets the whole list, each of several concurrent calls gets
\* one model
ListEnd(k) == IF Len(calls) = 1 THEN Len(models) ELSE k

\* async.eachSeries: the next model is started only after done() was called
\* without an error for the current one
ContinueAfterAlways(e, k) == k < Len(models)
ContinueAfter(e, k) == e = NoErr /\ k < ListEnd(k)

\* done(err) of the eachSeries iteratee for the k-th model
Done(k, e) ==
  LET res == Append(results, [k |-> k, e |-> e])
  IN  IF ContinueAfter(e, k)
      THEN Cont({Pending("iter", NoConn, k + 1, "", 0, 0, NoErr)}, res, final)
      ELSE Cont({}, res, Append(final, e))

\* the callback given to beginTransaction got an error: part_003 hands it
\* to autoupdate's callback, the later generations to done()
BeginFailedTwice(k, e) ==
  Cont(Done(k, e).add, Done(k, e).results, Append(Done(k, e).final, e))
BeginFailed(k, e) ==
  IF variant = "old" THEN Cont({}, results, Append(final, e)) ELSE Done(k, e)

\* the key under which the migration puts the connection into the options
TxOptionsKey(v) == IF v = "tx" THEN "transaction" ELSE "transation"

\* executeSQL: the connection a statement is bound to
ExecuteSQLConn(key, c) ==
  IF key = "transaction" /\ c # NoConn THEN c ELSE DefaultConn

ExecConn(k) == ExecuteSQLConn(TxOptionsKey(variant), TxConn(k))

\* the task list handed to async.series by _alterTable
AlterSeriesEarlyCommit(v) == <<"RENAME", "COMMIT", "CREATE", "COPY", "DROP">>
AlterSeries(v) ==
  IF v = "tx" THEN <<"RENAME", "CREATE", "COPY", "DROP">>
  ELSE <<"RENAME", "CREATE", "COPY", "DROP", "COMMIT">>

\* checkAndCommit of part_004: ROLLBACK on an error, COMMIT otherwise
CheckAndCommit(k, path, e) ==
  Issue(Pending(IF e # NoErr THEN "ROLLBACK" ELSE "COMMIT",
                TxConn(k), k, path, 0, 0, e))

\* the callback given to createTable / _alterTable by autoupdate
ModelEnd(k, path, e) ==
  IF variant = "tx" THEN CheckAndCommit(k, path, e) ELSE Done(k, e)

\* createTable on connection c: when buildColumnDefinitions returned an
\* Error the callback gets it at once and no statement is issued (as a task
\* of async.series that error ends the series); otherwise CREATE TABLE is
\* the first statement
CreateTable(c, k, path, t) ==
  IF ColDefs(models[k]).err # NoErr
  THEN ModelEnd(k, path, ColDefs(models[k]).err)
  ELSE Issue(Pending("CREATE", c, k, path, t, 1, NoErr))

StartTask(k, t) ==
  LET task == AlterSeries(variant)[t]
  IN  IF task = "CREATE" THEN CreateTable(ExecConn(k), k, "alter", t)
      ELSE Issue(Pending(task,
                         IF task = "COMMIT" THEN TxConn(k) ELSE ExecConn(k),
                         k, "alter", t, 0, NoErr))

\* async.series: stop at the first error, otherwise run the next task
SeriesNextAll(k, t, e) ==
  IF t < Len(AlterSeries(variant)) THEN StartTask(k, t + 1)
  ELSE ModelEnd(k, "alter", e)
SeriesNext(k, t, e) ==
  IF e # NoErr THEN ModelEnd(k, "alter", e)
  ELSE IF t < Len(AlterSeries(variant)) THEN StartTask(k, t + 1)
  ELSE ModelEnd(k, "alter", NoErr)

\* the callback of createTable
CreateTableCbSkipCopy(k, path, t, e) ==
  IF path = "alter" THEN SeriesNext(k, t + 1, e) ELSE ModelEnd(k, "create", e)
CreateTableCb(k, path, t, e) ==
  IF path = "alter" THEN SeriesNext(k, t, e) ELSE ModelEnd(k, "create", e)

\* the callback checkAndCommit gives to rollback: function() { done(err); }
\* reports the error that caused the rollback, not the ROLLBACK's own error
RollbackReportOwn(cause, own) == IF own # NoErr THEN own ELSE cause
RollbackReport(cause, own) == cause

\* releaseConnection is called whatever the terminal statement returned
ReleaseOnSuccess(e) == e = NoErr
ReleaseOn(e) == TRUE

Go(p, n) ==
  /\ pend' = (pend \ {p}) \cup n.add
  /\ results' = n.results
  /\ final' = n.final

Inject(b) == faults' = IF b THEN faults + 1 ELSE faults

\* migration.js:26 -- model in self._models
InModelsAny(m) == TRUE
InModels(m) == m \in DOMAIN defs

\* ---------------------------------------------------------------- actions
\* the eachSeries iteratee is entered for the k-th model
Iteratee ==
  \E p \in pend :
    /\ p.op = "iter"
    /\ pre' = disk
    /\ Go(p, IF ~InModels(models[p.k])
             THEN Issue(Pending("tick", NoConn, p.k, "", 0, 0, NoErr))
             ELSE IF variant = "lib"
             THEN Issue(Pending("SELECT", ExecuteSQLConn("", NoConn),
                                p.k, "", 0, 0, NoErr))
             ELSE IF variant = "old"
             THEN Issue(Pending("open", TxConn(p.k), p.k, "alter", 0, 0, NoErr))
             ELSE Issue(Pending("open", TxConn(p.k), p.k, "", 0, 0, NoErr)))
    /\ UNCHANGED <<config, conn, lock, disk, work, log, faults, seen>>

\* process.nextTick callback of the unknown-model branch
NextTick ==
  \E p \in pend :
    /\ p.op = "tick"
    /\ Go(p, Done(p.k, "Model not found"))
    /\ UNCHANGED <<config, conn, lock, disk, work, log, faults, pre, seen>>

\* callback of _getConnection inside beginTransaction
GetConnectionCb ==
  \E p \in pend, fault \in FaultChoices :
    /\ p.op = "open"
    /\ conn' = IF fault THEN conn ELSE [conn EXCEPT ![p.c] = "open"]
    /\ log' = Append(log, Event("open", p.c, p.k,
                           IF fault THEN FaultErr("open") ELSE NoErr))
    /\ Inject(fault)
    /\ Go(p, IF fault THEN BeginFailed(p.k, FaultErr("open"))
             ELSE Issue(Pending("BEGIN", p.c, p.k, p.path, 0, 0, NoErr)))
    /\ UNCHANGED <<config, lock, disk, work, pre, seen>>

\* callback of connection.run('BEGIN EXCLUSIVE TRANSACTION')
BeginCb ==
  \E p \in pend, fault \in FaultChoices :
    /\ p.op = "BEGIN"
    /\ LET r == TxRun(p.c, "BEGIN", fault)
       IN  /\ lock' = r.lock
           /\ work' = r.work
           /\ log' = Append(log, Event("BEGIN", p.c, p.k, r.err))
           /\ Inject(r.injected)
           /\ Go(p, IF r.err # NoErr THEN BeginFailed(p.k, r.err)
                    ELSE IF variant # "tx" THEN StartTask(p.k, 1)
                    ELSE Issue(Pending("SELECT", ExecConn(p.k), p.k, "",
                                       0, 0, NoErr)))
    /\ UNCHANGED <<config, conn, disk, pre, seen>>

\* callback of the catalog query SELECT name FROM sqlite_master ...
CatalogCb ==
  \E p \in pend, fault \in FaultChoices :
    /\ p.op = "SELECT"
    /\ LET r == Run(p.c, Stmt("SELECT", models[p.k], ""), fault)
       IN  /\ log' = Append(log, Event("SELECT", p.c, p.k, r.err))
           /\ Inject(r.injected)
           /\ Go(p, IF variant # "tx"
                    THEN IF r.err # NoErr THEN Done(p.k, r.err)
                         ELSE IF r.n > 0
                         THEN Issue(Pending("open", TxConn(p.k), p.k, "alter",
                                            0, 0, NoErr))
                         ELSE CreateTable(ExecuteSQLConn("", NoConn),
                                          p.k, "create", 0)
                    ELSE IF r.err # NoErr THEN CheckAndCommit(p.k, "", r.err)
                         ELSE IF r.n > 0 THEN StartTask(p.k, 1)
                         ELSE CreateTable(ExecConn(p.k), p.k, "create", 0))
    /\ UNCHANGED <<config, conn, lock, disk, work, pre, seen>>

\* callback of one statement task of async.series in _alterTable
SeriesStmtCb(op) ==
  \E p \in pend, fault \in FaultChoices :
    /\ p.op = op
    /\ LET r == Run(p.c, Stmt(op, models[p.k], ""), fault)
       IN  /\ disk' = r.disk
           /\ work' = r.work
           /\ log' = Append(log, Event(op, p.c, p.k, r.err))
           /\ Inject(r.injected)
           /\ Go(p, SeriesNext(p.k, p.t, r.err))
    /\ UNCHANGED <<config, conn, lock, pre, seen>>

RenameCb == SeriesStmtCb("RENAME")
CopyCb   == SeriesStmtCb("COPY")
DropCb   == SeriesStmtCb("DROP")

\* callback of one statement of createTable's eachSeries
CreateTableStmtCb ==
  \E p \in pend, fault \in FaultChoices :
    /\ p.op \in {"CREATE", "INDEX"}
    /\ LET stmts == CreateTableStmts(models[p.k], defs[models[p.k]])
           r == Run(p.c, stmts[p.j], fault)
       IN  /\ disk' = r.disk
           /\ work' = r.work
           /\ log' = Append(log, Event(p.op, p.c, p.k, r.err))
           /\ Inject(r.injected)
           /\ Go(p, IF r.err = NoErr /\ p.j < Len(stmts)
                    THEN Issue(Pending(stmts[p.j + 1].op, p.c, p.k, p.path,
                                       p.t, p.j + 1, NoErr))
                    ELSE CreateTableCb(p.k, p.path, p.t, r.err))
    /\ UNCHANGED <<config, conn, lock, pre, seen>>

\* callback of connection.run('COMMIT') / connection.run('ROLLBACK'):
\* releaseConnection, then the caller's callback
TerminalCb(op) ==
  \E p \in pend, fault \in FaultChoices :
    /\ p.op = op
    /\ LET r == TxRun(p.c, op, fault)
           rel == ReleaseOn(r.err) /\ conn[p.c] = "open"
       IN  /\ disk' = r.disk
           /\ work' = r.work
           /\ conn' = IF rel THEN [conn EXCEPT ![p.c] = "closed"] ELSE conn
           /\ lock' = IF rel THEN CloseLock(p.c, r.lock) ELSE r.lock
           /\ log' = log \o <<Event(op, p.c, p.k, r.err)>>
                         \o (IF ReleaseOn(r.err)
                             THEN <<Event("close", p.c, p.k,
                                     IF rel THEN NoErr ELSE "SQLITE_MISUSE")>>
                             ELSE <<>>)
                         \o <<Event("cb", p.c, p.k, r.err)>>
           /\ Inject(r.injected)
           /\ Go(p, IF op = "ROLLBACK"
                    THEN Done(p.k, RollbackReport(p.e, r.err))
                    ELSE IF p.t > 0 THEN SeriesNext(p.k, p.t, r.err)
                    ELSE Done(p.k, r.err))
    /\ UNCHANGED <<config, pre, seen>>

CommitCb   == TerminalCb("COMMIT")
RollbackCb == TerminalCb("ROLLBACK")

\* the foreign connection reads the model's tables while the alteration of
\* that model is under way
Observe ==
  \E p \in pend :
    /\ p.path = "alter"
    /\ LET m == models[p.k]
           busy == lock # NoConn
       IN  seen' = [busy |-> busy, m |-> m,
                    t |-> IF busy THEN NoTable ELSE disk.tbl[TName(m)],
                    old |-> ~busy /\ disk.tbl[OldName(m)].exists,
                    was |-> pre.tbl[TName(m)]]
    /\ seen' # seen
    /\ UNCHANGED <<config, conn, lock, disk, work, pend, results, final,
                   log, faults, pre>>

Next ==
  \/ Iteratee
  \/ NextTick
  \/ GetConnectionCb
  \/ BeginCb
  \/ CatalogCb
  \/ RenameCb
  \/ CreateTableStmtCb
  \/ CopyCb
  \/ DropCb
  \/ CommitCb
  \/ RollbackCb
  \/ Observe

Spec == Init /\ [][Next]_vars

\* ------------------------------------------ concurrent autoupdate calls
\* autoupdate is called for the model "a" and, before that call has ended,
\* once more for one model
InitConcurrent ==
  /\ calls = <<"autoupdate", "autoupdate">>
  /\ defaultConnection = DefaultConn
  /\ variant \in Variants
  /\ dqs = TRUE
  /\ models \in {<<"a", m>> : m \in ModelNames}
  /\ dbDefault = NoDefault
  /\ call = NoCall
  /\ \E pa \in PropChoices : defs = [m \in Registered |->
                                       IF m = "a" THEN pa ELSE <<"id">>]
  /\ conn = [c \in ConnIds |-> IF c = DefaultConn THEN "open" ELSE "none"]
  /\ lock = NoConn
  /\ \E acols \in PropChoices \cup {<<>>}, an \in 0..MaxRows,
        bexists \in BOOLEAN :
        /\ (acols = <<>> => an = 0)
        /\ (bexists => models[2] = "b")
        /\ disk = InitDb(acols, an, bexists)
  /\ work = EmptyDb
  /\ pend = {Pending("iter", NoConn, k, "", 0, 0, NoErr) : k \in 1..2}
  /\ results = <<>>
  /\ final = <<>>
  /\ log = <<>>
  /\ faults = 0
  /\ pre = disk
  /\ seen = NothingSeen

SpecConcurrent == InitConcurrent /\ [][Next]_vars

\* ------------------------------------- migration with a declared default
\* the declarations of "y": a type with a literal that is a number, no
\* number and no date, a date, or a boolean letter
DefaultChoices ==
  {[type |-> ty, lit |-> JsStr(l)] :
     ty \in {"Number", "Boolean", "Date"},
     l \in {"5", "abc", "1970-01-01T00:00:01.500Z", "t"}} \cup {NoDefault}

\* autoupdate is called for one model
InitDefaults ==
  InitWith({ms \in ModelSeqs : Len(ms) = 1}, DefaultChoices)

SpecDefaults == InitDefaults /\ [][Next]_vars

\* ------------------------------------------------- the coercion layer
\* the values handed to toColumnValue
Values ==
  {JsNum(0), JsNum(1), JsNum(5), JsNum(1500), JsNaN, JsBool(TRUE),
   JsBool(FALSE), JsNull, JsUndefined, JsDate(1500),
   JsObj("{val:2}"), JsObj("{lat:1,lng:2}"), JsObj("{at:Date(1500)}"),
   JsArr("[1,2]")}
  \cup {JsStr(x) : x \in {"t", "T", "y", "Y", "1", "f", "F", "n", "N", "0",
                          "maybe", "abc", "", "5", "1500", "now", "garbage",
                          "1970-01-01T00:00:01.500Z", "{\"val\":2}",
                          "[1,2]", "{bad"}}

\* the literals declared as sqlite3.dbDefault
DefaultLiterals ==
  {JsUndefined, JsNum(0), JsNum(1500), JsBool(TRUE), JsBool(FALSE)}
  \cup {JsStr(x) : x \in {"5", "abc", "now", "garbage", "t", "maybe",
                          "1970-01-01T00:00:01.500Z"}}

\* the properties whose column definition is built
DefinitionProps ==
  {Property(ty, id, rq, nl, dt, dl, d) :
     ty \in PropertyTypes, id \in BOOLEAN, rq \in BOOLEAN,
     nl \in {"unset", "true", "false"}, dt \in {"", "VARCHAR"},
     dl \in {0, 10}, d \in DefaultLiterals}
\* the properties whose values are converted
ValueProps ==
  {Property(ty, id, FALSE, "unset", "", 0, JsUndefined) :
     ty \in PropertyTypes, id \in BOOLEAN}

\* the identifiers handed to escapeName
MaxNameLen == 3
Identifiers ==
  UNION {[1..n -> {"a", "B", Quote}] : n \in 0..MaxNameLen}

\* the model whose index statements are built, its properties with any
\* choice of index flags, and its settings.indexes in declaration order
IndexedModel == <<"U", "d">>
PropertyFlags ==
  {<<[name |-> <<"i", "d">>, index |-> FALSE],
     [name |-> <<"e">>, index |-> fe],
     [name |-> <<"c", "B">>, index |-> fc]>> : fe, fc \in BOOLEAN}
MaxIndexes == 2
IndexNameOf == <<<<"I", "0">>, <<"i", "1">>, <<"i", "2">>>>
IndexShapes ==
  {[columns |-> <<"e", ",", Blank, "c", "B">>, kind |-> "none", keys |-> <<>>],
   [columns |-> <<"e">>, kind |-> "none", keys |-> <<>>],
   [columns |-> <<>>, kind |-> "array", keys |-> <<<<"c", "B">>, <<"e">>>>],
   [columns |-> <<>>, kind |-> "object", keys |-> <<<<"e">>>>],
   [columns |-> <<>>, kind |-> "none", keys |-> <<>>]}
IndexSettings ==
  UNION {{[i \in 1..n |-> IndexDecl(IndexNameOf[i], sh[i].columns,
                                    sh[i].kind, sh[i].keys)] :
            sh \in [1..n -> IndexShapes]} : n \in 0..MaxIndexes}

\* the parameters of a statement next to the converted value
OtherParams == <<JsStr("abc"), JsNum(5), JsStr("maybe")>>

migration == <<variant, dqs, models, defs, dbDefault, conn, lock, disk, work,
               pend, results, final, log, faults, pre, seen, calls,
               defaultConnection>>

\* no migration is under way; a property, or a property and a value, are
\* about to enter the coercion layer
InitCoerce ==
  /\ calls = <<>>
  /\ defaultConnection = DefaultConn
  /\ variant = "lib"
  /\ dqs = TRUE
  /\ models = <<"a">>
  /\ defs = [m \in Registered |-> <<"id">>]
  /\ dbDefault = NoDefault
  /\ conn = [c \in ConnIds |-> IF c = DefaultConn THEN "open" ELSE "none"]
  /\ lock = NoConn
  /\ disk = EmptyDb
  /\ work = EmptyDb
  /\ pend = {}
  /\ results = <<>>
  /\ final = <<>>
  /\ log = <<>>
  /\ faults = 0
  /\ pre = EmptyDb
  /\ seen = NothingSeen
  /\ call \in {[NoCall EXCEPT !.stage = "input", !.prop = p] :
                 p \in DefinitionProps}
           \cup {[NoCall EXCEPT !.stage = "input", !.prop = p, !.arg = v] :
                    p \in ValueProps, v \in Values}
           \cup {[NoCall EXCEPT !.stage = "name", !.name = n] :
                    n \in Identifiers}
           \cup {[NoCall EXCEPT !.stage = "model", !.properties = ps,
                                !.indexes = ix] :
                    ps \in PropertyFlags, ix \in IndexSettings}

\* _buildColumnDefinition is applied to the property
BuildColumnDefinitionCall ==
  /\ call.stage = "input"
  /\ call' = [call EXCEPT !.stage = "defined",
                          !.def = BuildColumnDefinition("y", call.prop)]
  /\ UNCHANGED migration

\* toColumnValue is applied to the value
ToColumnValueCall ==
  /\ call.stage = "input"
  /\ call' = [call EXCEPT !.stage = "converted",
                          !.out = ToColumnValue(call.prop, call.arg)]
  /\ UNCHANGED migration

\* executeSQL receives the converted value as one of three parameters and
\* binds what its sanitising loop left
ExecuteSQLCall ==
  /\ call.stage = "converted"
  /\ \E pos \in 1..Len(OtherParams) :
       LET params == [OtherParams EXCEPT ![pos] = call.out]
       IN  call' = [call EXCEPT !.stage = "bound", !.pos = pos,
                                !.params = params,
                                !.bound = SanitizeParams(params)]
  /\ UNCHANGED migration

\* the stored value is read back through fromColumnValue
FromColumnValueCall ==
  /\ call.stage = "bound"
  /\ call' = [call EXCEPT !.stage = "read",
                 !.back = FromColumnValue(call.prop,
                                          DriverStore(call.bound[call.pos]))]
  /\ UNCHANGED migration

\* escapeName is applied to the identifier
EscapeNameCall ==
  /\ call.stage = "name"
  /\ call' = [call EXCEPT !.stage = "escaped",
                          !.esc = EscapeName(call.name)]
  /\ UNCHANGED migration

\* _buildColumnIndexes is applied to the model
BuildColumnIndexesCall ==
  /\ call.stage = "model"
  /\ call' = [call EXCEPT !.stage = "indexed",
                 !.stmts = BuildColumnIndexesSql(IndexedModel, call.properties,
                                                 call.indexes)]
  /\ UNCHANGED migration

NextCoerce ==
  \/ EscapeNameCall
  \/ BuildColumnIndexesCall
  \/ BuildColumnDefinitionCall
  \/ ToColumnValueCall
  \/ ExecuteSQLCall
  \/ FromColumnValueCall

SpecCoerce == InitCoerce /\ [][NextCoerce]_vars

\* ------------------------------------------- the default connection
\* connect and executeSQL (without a transaction) are called on a connector
\* that initialize created without connecting it
MaxCalls == 3

\* the handle that new sqlite3.Database creates for the k-th call
Handle(k) == k

idle == <<variant, dqs, models, defs, dbDefault, call, lock, disk, work, final,
          pre, seen>>

InitConnect ==
  /\ calls = <<>>
  /\ defaultConnection = NoConn
  /\ conn = [c \in 1..MaxCalls |-> "none"]
  /\ pend = {}
  /\ results = <<>>
  /\ log = <<>>
  /\ faults = 0
  /\ variant = "lib"
  /\ dqs = TRUE
  /\ models = <<>>
  /\ defs = [m \in Registered |-> <<"id">>]
  /\ dbDefault = NoDefault
  /\ call = NoCall
  /\ lock = NoConn
  /\ disk = EmptyDb
  /\ work = EmptyDb
  /\ final = <<>>
  /\ pre = EmptyDb
  /\ seen = NothingSeen

\* the callback of the k-th call is invoked with error e
Callback(k, e) == Append(results, [k |-> k, e |-> e])

\* sqlite3.js:83-98 connect, up to its return: without a default connection
\* a handle is opened, otherwise the callback gets the default connection
\* at once; then is what the caller's callback does with that connection
ConnectStart(k, path, then) ==
  IF defaultConnection = NoConn
  THEN /\ pend' = pend \cup {Pending("open", Handle(k), k, path, 0, 0, NoErr)}
       /\ results' = results
  ELSE then

\* connect(callback) is called
ConnectCall ==
  /\ Len(calls) < MaxCalls
  /\ LET k == Len(calls) + 1
     IN  /\ calls' = Append(calls, "connect")
         /\ ConnectStart(k, "connect",
                         /\ pend' = pend
                         /\ results' = Callback(k, NoErr))
  /\ UNCHANGED <<conn, log, faults, defaultConnection, idle>>

\* sqlite3.js:154-171: executeSQL is called without a transaction
ExecuteSQLStart ==
  /\ Len(calls) < MaxCalls
  /\ LET k == Len(calls) + 1
     IN  /\ calls' = Append(calls, "executeSQL")
         /\ ConnectStart(k, "executeSQL",
                         /\ pend' = pend \cup
                              {Pending("STMT", defaultConnection, k,
                                       "executeSQL", 0, 0, NoErr)}
                         /\ results' = results)
  /\ UNCHANGED <<conn, log, faults, defaultConnection, idle>>

\* sqlite3.js:160-168: the callback executeSQL gave to connect got an error.
\* connect passed no connection, so `connection` is undefined and equals
\* self._defaultConnection exactly when that is not set; then
\* self._defaultConnection.close() throws a TypeError and the caller's
\* callback is not reached
ConnectFailed(p, e) ==
  IF p.path = "executeSQL" /\ defaultConnection = NoConn
  THEN /\ log' = log \o <<Event("open", p.c, p.k, e),
                           Event("throw", NoConn, p.k, "TypeError")>>
       /\ results' = results
  ELSE /\ log' = Append(log, Event("open", p.c, p.k, e))
       /\ results' = Callback(p.k, e)

\* the callback of new sqlite3.Database in _getConnection, called by connect
DefaultOpenCb ==
  \E p \in pend, fault \in FaultChoices :
    /\ p.op = "open"
    /\ Inject(fault)
    /\ IF fault
       THEN /\ ConnectFailed(p, FaultErr("open"))
            /\ pend' = pend \ {p}
            /\ UNCHANGED <<conn, defaultConnection>>
       ELSE /\ conn' = [conn EXCEPT ![p.c] = "open"]
            /\ defaultConnection' = p.c
            /\ log' = Append(log, Event("open", p.c, p.k, NoErr))
            /\ IF p.path = "executeSQL"
               THEN /\ pend' = (pend \ {p}) \cup
                                 {Pending("STMT", p.c, p.k, p.path, 0, 0,
                                          NoErr)}
                    /\ results' = results
               ELSE /\ pend' = pend \ {p}
                    /\ results' = Callback(p.k, NoErr)
    /\ UNCHANGED <<calls, idle>>

\* sqlite3.js:175-214: processResult, the callback of client.all / client.run
StatementCb ==
  \E p \in pend, fault \in FaultChoices :
    /\ p.op = "STMT"
    /\ Inject(fault)
    /\ LET e == IF fault THEN FaultErr("STMT") ELSE NoErr
       IN  /\ log' = Append(log, Event("STMT", p.c, p.k, e))
           /\ results' = Callback(p.k, e)
    /\ pend' = pend \ {p}
    /\ UNCHANGED <<conn, calls, defaultConnection, idle>>

NextConnect ==
  \/ ConnectCall
  \/ ExecuteSQLStart
  \/ DefaultOpenCb
  \/ StatementCb

SpecConnect == InitConnect /\ [][NextConnect]_vars

\* ------------------------------------------------------------------ claims
Unknown(i) == i \in 1..Len(models) /\ models[i] \notin DOMAIN defs
LogOf(i) == SelectSeq(log, LAMBDA ev : ev.k = i)
Events(i, ops) == SelectSeq(log, LAMBDA ev : ev.k = i /\ ev.op \in ops)
Failed(s) == SelectSeq(s, LAMBDA ev : ev.e # NoErr)
HasResult(i) == \E j \in 1..Len(results) : results[j].k = i
ResultOf(i) == CHOOSE r \in Range(results) : r.k = i
\* done() was called for the i-th model and no later model was entered, so
\* pre still is the database as the i-th model's migration found it
Latest(i) == i <= Len(models) /\ Len(results) = i
             /\ \A p \in pend : p.op = "iter"
StepOps == {"RENAME", "CREATE", "INDEX", "COPY", "DROP"}
\* the i-th model took the alter branch and its rename was executed
Altering(i) == Events(i, {"RENAME"}) # <<>>
\* the i-th model found no table and executed CREATE TABLE
Creating(i) == /\ models[i] \in DOMAIN defs
               /\ ~pre.tbl[TName(models[i])].exists
               /\ Events(i, {"CREATE"}) # <<>>
IndexesOf(db, m) == {x \in IndexNames : db.idx[x] = TName(m)}

\* C1 (as claimed): when autoupdate alters an existing table and one of the
\* steps rename, create, copy, drop fails, the transaction is rolled back,
\* the triggering error reaches the callback, and afterwards the model's
\* table has the columns and rows it had before and <model>_old is absent.
C1_AlterFailureRolledBack ==
  \A i \in 1..MaxModels :
    (Latest(i) /\ Altering(i) /\ Failed(Events(i, StepOps)) # <<>>) =>
      /\ Events(i, {"ROLLBACK"}) # <<>>
      /\ lock # TxConn(i)
      /\ ResultOf(i).e = Failed(Events(i, StepOps))[1].e
      /\ final = <<ResultOf(i).e>>
      /\ disk.tbl[TName(models[i])] = pre.tbl[TName(models[i])]
      /\ ~disk.tbl[OldName(models[i])].exists

\* C2 (as claimed): every statement of an alteration is executed on the
\* connection on which BEGIN EXCLUSIVE TRANSACTION succeeded, after that
\* BEGIN and before that connection's COMMIT or ROLLBACK, and never on the
\* connector's default connection.
C2_AlterStatementsOnTxConnection ==
  \A j \in 1..Len(log) :
    (log[j].op \in StepOps /\ Altering(log[j].k)) =>
      /\ log[j].c # DefaultConn
      /\ \E b \in 1..(j - 1) :
           /\ log[b].op = "BEGIN" /\ log[b].e = NoErr /\ log[b].c = log[j].c
           /\ \A t \in (b + 1)..(j - 1) :
                ~(log[t].c = log[j].c
                  /\ log[t].op \in {"COMMIT", "ROLLBACK", "close"})

\* C3 (as claimed): when autoupdate finds no table, CREATE TABLE and the
\* index statements run under one transaction that is committed on success;
\* when one of them fails no later statement is executed, the transaction is
\* rolled back, neither the table nor an index persists, and the callback
\* receives that statement's error.
C3_CreateInOneTransaction ==
  \A i \in 1..MaxModels :
    (Latest(i) /\ Creating(i)) =>
      LET m == models[i]
          stmts == Events(i, {"CREATE", "INDEX"})
          bad == Failed(stmts)
      IN  /\ \A n \in 1..Len(stmts) : stmts[n].c = TxConn(i)
          /\ Failed(Events(i, {"BEGIN"})) = <<>>
          /\ Events(i, {"BEGIN"}) # <<>>
          /\ bad = <<>> =>
               /\ Len(Events(i, {"COMMIT"})) = 1
               /\ Events(i, {"ROLLBACK"}) = <<>>
               /\ Failed(Events(i, {"COMMIT"})) = <<>> =>
                    /\ ResultOf(i).e = NoErr
                    /\ disk.tbl[TName(m)].exists
          /\ bad # <<>> =>
               /\ stmts[Len(stmts)].e # NoErr /\ Len(bad) = 1
               /\ Events(i, {"ROLLBACK"}) # <<>>
               /\ ~disk.tbl[TName(m)].exists
               /\ IndexesOf(disk, m) = {}
               /\ ResultOf(i).e = bad[1].e

\* C4: autoupdate with a model name that is not in the registry reports an
\* error to its callback, and for that model no catalog query is executed or
\* issued, no transaction is begun and no connection is opened.
C4_UnknownModelReported ==
  \A i \in 1..MaxModels :
    Unknown(i) =>
      /\ LogOf(i) = <<>>
      /\ \A p \in pend : p.k = i => p.op \in {"iter", "tick"}
      /\ \A j \in 1..Len(results) :
           results[j].k = i => /\ results[j].e = "Model not found"
                               /\ final = <<"Model not found">>
      /\ (pend = {} /\ Len(results) >= i) => HasResult(i)

\* an unknown model was reported after a registered one was migrated
C4_Witness ==
  /\ Len(models) = 2 /\ Unknown(2) /\ HasResult(2)
  /\ LogOf(1) # <<>> /\ final = <<"Model not found">>

\* C5 (as claimed): every transaction a migration begins ends in exactly one
\* terminal statement, COMMIT when all steps succeeded and ROLLBACK at the
\* first failure, and when done() is called for the model the connection
\* opened for its transaction has been released and holds no transaction.
C5_TransactionEndedAndReleased ==
  \A i \in 1..MaxModels :
    (i <= Len(models) /\ HasResult(i)) =>
      /\ conn[TxConn(i)] # "open"
      /\ lock # TxConn(i)
      /\ (Events(i, {"BEGIN"}) # <<>> /\ Failed(Events(i, {"BEGIN"})) = <<>>)
           => LET term == Events(i, {"COMMIT", "ROLLBACK"})
              IN  /\ Len(term) = 1
                  /\ term[1].op = "COMMIT"
                       <=> Failed(Events(i, StepOps \cup {"SELECT"})) = <<>>

\* C6: commit and rollback release (close) the connection exactly once,
\* whether the COMMIT or ROLLBACK statement succeeded or failed, and before
\* their callback is invoked with the statement's error; the closed
\* connection is used by no later operation.
C6_TerminalReleasesOnce ==
  \A j \in 1..Len(log) :
    log[j].op \in {"COMMIT", "ROLLBACK"} =>
      /\ j + 2 <= Len(log)
      /\ log[j + 1] = Event("close", log[j].c, log[j].k, NoErr)
      /\ log[j + 2] = Event("cb", log[j].c, log[j].k, log[j].e)
      /\ Len(SelectSeq(log, LAMBDA ev : ev.op = "close" /\ ev.c = log[j].c)) = 1
      /\ conn[log[j].c] = "closed"
      /\ lock # log[j].c
      /\ \A t \in (j + 3)..Len(log) : log[t].c # log[j].c

\* autoupdate has ended after a COMMIT or ROLLBACK statement failed, and the
\* connection of that statement is closed
C6_Witness ==
  \E j \in 1..Len(log) :
    /\ log[j].op \in {"COMMIT", "ROLLBACK"} /\ log[j].e # NoErr
    /\ conn[log[j].c] = "closed"
    /\ pend = {}

\* something was executed or issued for the i-th model
Started(i) == LogOf(i) # <<>> \/ \E p \in pend : p.k = i
\* the transaction begun for the i-th model, if any, was ended
TxEnded(i) ==
  /\ lock # TxConn(i)
  /\ (Events(i, {"BEGIN"}) # <<>> /\ Failed(Events(i, {"BEGIN"})) = <<>>)
       => \E ev \in Range(Events(i, {"COMMIT", "ROLLBACK"})) : ev.e = NoErr

\* C7: the models of one autoupdate call are processed one after another in
\* the given order: nothing is executed or issued for model k+1 before
\* done() was called for model k and the transaction of model k was ended,
\* and operations of two different models are never in flight together.
C7_ModelsStrictlySequential ==
  /\ \A a, b \in 1..Len(log) : a < b => log[a].k <= log[b].k
  /\ \A p \in pend : \A a \in 1..Len(log) : log[a].k <= p.k
  /\ \A p, q \in pend : p.k = q.k
  /\ Cardinality(pend) <= 1
  /\ \A i \in 1..(MaxModels - 1) :
       Started(i + 1) => HasResult(i) /\ TxEnded(i)

\* the second model is being migrated after the first one's transaction
\* was committed
C7_Witness ==
  /\ Len(models) = 2
  /\ \E ev \in Range(Events(1, {"COMMIT"})) : ev.e = NoErr
  /\ Events(1, {"RENAME"}) # <<>>
  /\ Events(2, {"SELECT"}) # <<>>

\* C8: while an alteration is in progress a read by another connection
\* either is refused or finds the model's table complete -- as it was
\* before the migration or with the new columns and all rows -- and finds
\* no table <model>_old.
C8_NoIntermediateStateVisible ==
  seen.busy \/ seen.m = "" \/
    /\ ~seen.old
    /\ \/ seen.t = seen.was
       \/ /\ seen.t.exists
          /\ seen.t.cols = defs[seen.m]
          /\ Len(seen.t.rows) = Len(seen.was.rows)

\* the foreign connection was refused while the transaction held the
\* renamed table and a still empty new table
C8_Witness ==
  /\ seen.busy /\ seen.m # ""
  /\ \E p \in pend :
       /\ p.op = "COPY" /\ models[p.k] = seen.m /\ lock = p.c
       /\ work.tbl[OldName(seen.m)].exists
       /\ Len(work.tbl[OldName(seen.m)].rows) > 0
       /\ work.tbl[TName(seen.m)].rows = <<>>

\* C9 (amended): a failure of the COMMIT statement is the error reported for
\* the model and to autoupdate's callback; a failure of the ROLLBACK
\* statement is not reported, the caller receives the error that caused the
\* rollback.
C9_CommitFailureReported ==
  \A i \in 1..MaxModels :
    (i <= Len(models) /\ HasResult(i)) =>
      /\ Failed(Events(i, {"COMMIT"})) # <<>> =>
           /\ ResultOf(i).e = Failed(Events(i, {"COMMIT"}))[1].e
           /\ final = <<ResultOf(i).e>>
      /\ Events(i, {"ROLLBACK"}) # <<>> =>
           /\ ResultOf(i).e = Failed(Events(i, StepOps \cup {"SELECT"}))[1].e
           /\ final = <<ResultOf(i).e>>

\* a copy failed, the ROLLBACK failed too, and the copy's error was reported
C9_Witness ==
  /\ Failed(Events(1, {"ROLLBACK"})) # <<>>
  /\ Failed(Events(1, {"COPY"})) # <<>>
  /\ HasResult(1) /\ final = <<"fault in COPY">>

\* C9 (as claimed): when the COMMIT or ROLLBACK statement of a migration
\* transaction fails, that failure is the error reported for the model and
\* to autoupdate's callback.
C9_TerminalFailureReported ==
  \A i \in 1..MaxModels :
    (i <= Len(models) /\ HasResult(i)
       /\ Failed(Events(i, {"COMMIT", "ROLLBACK"})) # <<>>) =>
      /\ ResultOf(i).e = Failed(Events(i, {"COMMIT", "ROLLBACK"}))[1].e
      /\ final = <<ResultOf(i).e>>

\* the property list new is old with one property added
AddsOneProperty(old, new) ==
  /\ Len(new) = Len(old) + 1
  /\ Range(old) \subseteq Range(new)

\* C10 (as claimed): altering a table of N rows with a model definition that
\* adds one nullable property succeeds (no backend fault injected) and
\* leaves N rows, each with its old values in the old columns and NULL in
\* the new column.
C10_AddedColumnIsNull ==
  \A i \in 1..MaxModels :
    (/\ Latest(i) /\ models[i] \in DOMAIN defs /\ faults = 0
     /\ pre.tbl[TName(models[i])].exists
     /\ AddsOneProperty(pre.tbl[TName(models[i])].cols, defs[models[i]])) =>
      LET old == pre.tbl[TName(models[i])]
          new == disk.tbl[TName(models[i])]
      IN  /\ ResultOf(i).e = NoErr
          /\ new.exists /\ new.cols = defs[models[i]]
          /\ Len(new.rows) = Len(old.rows)
          /\ \A r \in 1..Len(new.rows) : \A c \in 1..Len(new.cols) :
               new.rows[r][c] =
                 IF IndexOf(old.cols, new.cols[c]) = 0 THEN NULL
                 ELSE old.rows[r][IndexOf(old.cols, new.cols[c])]

\* the i-th model is the one being migrated or the one just finished, so
\* pre is the database as its migration found it
Current(i) ==
  \/ Latest(i)
  \/ /\ Len(results) = i - 1
     /\ \E p \in pend : p.k = i /\ p.op # "iter"
\* properties of the i-th model for which the table it found has no column
AddedProps(i) ==
  Range(defs[models[i]]) \ Range(pre.tbl[TName(models[i])].cols)
\* the copy statement of the i-th model's alteration was executed while the
\* model had a property without a column in the old table
CopiesAdded(i) ==
  /\ i <= Len(models) /\ models[i] \in DOMAIN defs
  /\ Current(i) /\ Altering(i)
  /\ Events(i, {"COPY"}) # <<>>
  /\ AddedProps(i) # {}
\* after a failed copy nothing more is executed but the ROLLBACK, and once
\* the model is done the table is as it was found
CopyAborted(i) ==
  /\ Len(Events(i, {"COPY"})) = 1
  /\ Events(i, {"DROP", "COMMIT"}) = <<>>
  /\ HasResult(i) =>
       /\ Events(i, {"ROLLBACK"}) # <<>>
       /\ ResultOf(i).e = Events(i, {"COPY"})[1].e
       /\ Failed(Events(i, {"ROLLBACK"})) = <<>> =>
            /\ disk.tbl[TName(models[i])] = pre.tbl[TName(models[i])]
            /\ ~disk.tbl[OldName(models[i])].exists

RemovesOneProperty(old, new) ==
  /\ Len(new) + 1 = Len(old)
  /\ Range(new) \subseteq Range(old)

\* C12 (as claimed): altering a table after one property was removed from
\* the model (no backend fault injected) drops exactly that column: the
\* altered table has no column for the removed property, the number of rows
\* is unchanged, and every row keeps its value in every other column.
C12_RemovedColumnDropped ==
  \A i \in 1..MaxModels :
    (/\ Latest(i) /\ models[i] \in DOMAIN defs /\ faults = 0
     /\ pre.tbl[TName(models[i])].exists
     /\ RemovesOneProperty(pre.tbl[TName(models[i])].cols, defs[models[i]])) =>
      LET old == pre.tbl[TName(models[i])]
          new == disk.tbl[TName(models[i])]
      IN  /\ new.exists
          /\ Range(new.cols) = Range(defs[models[i]])
          /\ Len(new.rows) = Len(old.rows)
          /\ \A r \in 1..Len(new.rows) : \A c \in 1..Len(new.cols) :
               /\ IndexOf(old.cols, new.cols[c]) # 0
               /\ new.rows[r][c] = old.rows[r][IndexOf(old.cols, new.cols[c])]

\* the alteration of the i-th model ran all its steps and was committed
AlteredOk(i) ==
  /\ Altering(i) /\ HasResult(i) /\ ResultOf(i).e = NoErr
  /\ Failed(LogOf(i)) = <<>>

\* C13 (as claimed): running the alteration twice in a row with an unchanged
\* model definition leaves, after the second run, the same columns, the same
\* indexes and the same rows as after the first run.
C13_AlterationIdempotent ==
  \A i \in 2..MaxModels :
    (/\ Latest(i) /\ models[i] \in DOMAIN defs /\ models[i - 1] = models[i]
     /\ AlteredOk(i - 1) /\ AlteredOk(i)) =>
      LET m == models[i]
      IN  /\ disk.tbl[TName(m)].cols = pre.tbl[TName(m)].cols
          /\ disk.tbl[TName(m)].rows = pre.tbl[TName(m)].rows
          /\ IndexesOf(disk, m) = IndexesOf(pre, m)

\* the declaration of "y" carries a literal that is no value of its type
InvalidDefault(d) ==
  CASE d.type = "Number"  -> d.lit.s \notin DOMAIN NumStr
    [] d.type = "Boolean" -> d.lit.s \notin {"t", "T", "y", "Y", "1",
                                             "f", "F", "n", "N", "0"}
    [] d.type = "Date"    -> d.lit.s \notin DOMAIN NumStr \cup DOMAIN DateStr
                                              \cup {"now"}
    [] OTHER -> FALSE

\* C14 (as claimed): if the default literal of a property of a model is
\* invalid for the property's declared type, migrating that model executes
\* no CREATE TABLE statement and reports an error to the callback, and no
\* table exists for the model afterwards when none existed before.
C14_InvalidDefaultCreatesNothing ==
  \A i \in 1..MaxModels :
    (/\ i <= Len(models) /\ models[i] \in DOMAIN defs
     /\ "y" \in Range(defs[models[i]])
     /\ InvalidDefault(dbDefault)) =>
      /\ Events(i, {"CREATE"}) = <<>>
      /\ Latest(i) =>
           /\ ResultOf(i).e # NoErr
           /\ ~pre.tbl[TName(models[i])].exists
                => ~disk.tbl[TName(models[i])].exists

\* the text ends with the pieces of tail
EndsWith(text, tail) ==
  /\ Len(text) >= Len(tail)
  /\ SubSeq(text, Len(text) - Len(tail) + 1, Len(text)) = tail

\* C15: with no explicit column-type override the column type built for a
\* property is INTEGER for a Number that is an identifier, REAL for any other
\* Number, INTEGER for Boolean and for Date, and TEXT for every other type;
\* the definition carries NOT NULL exactly when the property is required, an
\* identifier or declared null: false, and PRIMARY KEY exactly when it is an
\* identifier, in that order at its end.
C15_ColumnTypeAndFlags ==
  (call.stage = "defined" /\ call.def.err = NoErr /\ call.prop.dataType = "") =>
    LET p == call.prop
        text == call.def.text
        type == IF p.type = "Number" /\ p.id THEN "INTEGER"
                ELSE IF p.type = "Number" THEN "REAL"
                ELSE IF p.type \in {"Boolean", "Date"} THEN "INTEGER"
                ELSE "TEXT"
        notNull == p.required \/ p.id \/ p.null = "false"
    IN  /\ SubSeq(text, 1, 5) = <<"\"", "y", "\"", Blank, type>>
        /\ EndsWith(text,
             (IF notNull THEN <<Blank, "NOT", Blank, "NULL">> ELSE <<>>)
               \o (IF p.id THEN <<Blank, "PRIMARY", Blank, "KEY">> ELSE <<>>))
        /\ "NOT" \in Range(text) <=> notNull
        /\ "PRIMARY" \in Range(text) <=> p.id

\* the definition of a Number identifier and that of a nullable Date were
\* built
C15_Witness ==
  /\ call.stage = "defined" /\ call.def.err = NoErr
  /\ call.prop.dataType = ""
  /\ \/ /\ call.prop.type = "Number" /\ call.prop.id
        /\ call.def.text = <<"\"", "y", "\"", Blank, "INTEGER", Blank, "NOT",
                             Blank, "NULL", Blank, "PRIMARY", Blank, "KEY">>
     \/ /\ call.prop.type = "Date" /\ ~call.prop.id /\ call.prop.required
        /\ call.def.text = <<"\"", "y", "\"", Blank, "INTEGER", Blank, "NOT",
                             Blank, "NULL">>

BooleanTrue == {JsStr("t"), JsStr("T"), JsStr("y"), JsStr("Y"), JsStr("1"),
                JsNum(1), JsBool(TRUE)}
BooleanFalse == {JsStr("f"), JsStr("F"), JsStr("n"), JsStr("N"), JsStr("0"),
                 JsNum(0), JsBool(FALSE)}

\* C16: for a Boolean property, a value of the truthy literal set (1, true,
\* "t", "T", "y", "Y", "1") written through toColumnValue and read back
\* through fromColumnValue is true, and a value of the falsy literal set
\* (0, false, "f", "F", "n", "N", "0") is false.
C16_BooleanRoundTrip ==
  (call.prop.type = "Boolean" /\ call.arg \in BooleanTrue \cup BooleanFalse) =>
    /\ call.stage \in {"converted", "bound", "read"} =>
         FromColumnValue(call.prop, call.out) = JsBool(call.arg \in BooleanTrue)
    /\ call.stage = "read" => call.back = JsBool(call.arg \in BooleanTrue)

\* "y" was stored for a Boolean property and read back as true
C16_Witness ==
  /\ call.stage = "read" /\ call.prop.type = "Boolean"
  /\ call.arg = JsStr("y") /\ call.out = JsNum(1)
  /\ call.back = JsBool(TRUE)

\* C17 (as claimed): toColumnValue for a Date property returns the value as
\* a number when it is a numeric epoch-millisecond value, returns the parsed
\* time as an integer count of milliseconds when it is a string that parses
\* as a date, and returns an error value only when the string does not parse.
C17_DateToColumnValue ==
  (call.stage = "converted" /\ call.prop.type = "Date") =>
    /\ (call.arg.t = "number" /\ call.arg # JsNaN) => call.out = call.arg
    /\ (call.arg.t = "string" /\ call.arg.s \in DOMAIN DateStr) =>
         (call.out.t = "number" /\ call.out # JsNaN)
    /\ (call.arg.t = "string" /\ call.out.t \in {"InvalidParam", "Error"}) =>
         call.arg.s \notin DOMAIN DateStr \cup DOMAIN NumStr

StructuredTypes == {"Object", "Array", "GeoPoint", "Point", "List",
                    "ModelConstructor"}

\* C19 (as claimed): for every property typed Object, Array, GeoPoint,
\* Point, List or ModelConstructor and every non-null structured value v,
\* toColumnValue returns the JSON text of v and fromColumnValue applied to
\* that stored text returns a structure equal to v.
C19_StructuredRoundTrip ==
  (call.prop.type \in StructuredTypes /\ call.arg.t \in {"object", "array"}) =>
    /\ call.stage \in {"converted", "bound", "read"} =>
         call.out = JsStr(JsonText[call.arg.s])
    /\ call.stage = "read" => call.back = call.arg

\* the value is one toColumnValue cannot represent in the property's type
Rejected(p, v) ==
  /\ v.t \notin {"null", "undefined"}
  /\ CASE p.type = "Number"  -> ToNumber(v) = JsNaN
       [] p.type = "Date"    -> v.t = "string" /\ v.s \notin DOMAIN NumStr
                                /\ v.s # "" /\ v.s \notin DOMAIN DateStr
       [] p.type = "JSON"    -> JsonParse(v).t = "throw"
       [] p.type = "Boolean" -> v \notin BooleanTrue \cup BooleanFalse
       [] OTHER -> FALSE

\* C20 (as claimed): for every value that toColumnValue cannot represent in
\* the property's type (non-numeric Number, unparseable Date, malformed JSON,
\* non-canonical Boolean) the parameter that executeSQL binds in its place
\* is NULL, and all other parameters are bound unchanged in their positions.
C20_RejectedValueBoundAsNull ==
  call.stage = "bound" =>
    /\ Rejected(call.prop, call.arg) => call.bound[call.pos] = JsNull
    /\ Len(call.bound) = Len(OtherParams)
    /\ \A i \in 1..Len(call.bound) :
         i # call.pos => call.bound[i] = OtherParams[i]

\* the identifier with every double quote in it doubled
RECURSIVE Doubled(_)
Doubled(name) ==
  IF name = <<>> THEN <<>>
  ELSE (IF Head(name) = Quote THEN <<Quote, Quote>> ELSE <<Head(name)>>)
       \o Doubled(Tail(name))

\* C21 (as claimed): escapeName returns, for every non-empty identifier, the
\* identifier wrapped in double quotes with every double quote inside it
\* doubled.
C21_EscapeNameDoublesQuotes ==
  (call.stage = "escaped" /\ call.name # <<>>) =>
    call.esc = <<Quote>> \o Doubled(call.name) \o <<Quote>>

\* the statements of the alteration of the i-th model, in the order of
\* async.series and of createTable's statement list, closed by COMMIT
AlterStatements(i) ==
  LET stmts == CreateTableStmts(models[i], defs[models[i]])
  IN  <<"RENAME">> \o [j \in 1..Len(stmts) |-> stmts[j].op]
                  \o <<"COPY", "DROP", "COMMIT">>

\* C22: within one model's alteration the statements are issued in the
\* order rename, CREATE TABLE, index creations, copy, drop, COMMIT, each at
\* most once, each only after the previous one completed successfully, at
\* most one is in flight, and after the first failing statement no later
\* statement of the sequence is issued.
C22_AlterStatementsInOrder ==
  \A i \in 1..MaxModels :
    (i <= Len(models) /\ Altering(i)) =>
      LET ops == StepOps \cup {"COMMIT"}
          ev == Events(i, ops)
          exp == AlterStatements(i)
          flying == {p \in pend : p.k = i /\ p.op \in ops}
      IN  /\ Len(ev) <= Len(exp)
          /\ \A n \in 1..Len(ev) : ev[n].op = exp[n]
          /\ \A n \in 1..(Len(ev) - 1) : ev[n].e = NoErr
          /\ Cardinality(flying) <= 1
          /\ \A p \in flying :
               /\ Failed(ev) = <<>>
               /\ Len(ev) < Len(exp)
               /\ p.op = exp[Len(ev) + 1]

\* an alteration with an index statement ran through all its statements up
\* to a successful COMMIT
C22_Witness ==
  \E i \in 1..MaxModels :
    /\ i <= Len(models) /\ Altering(i) /\ HasResult(i)
    /\ LET ev == Events(i, StepOps \cup {"COMMIT"})
       IN  /\ Len(ev) = Len(AlterStatements(i))
           /\ Failed(ev) = <<>>
           /\ \E n \in 1..Len(ev) : ev[n].op = "INDEX"

\* C23 (as claimed): after a successful alteration of an existing table every
\* index declared by the current model definition exists on the table under
\* the model's name; the indexes the old table carried do not prevent their
\* creation and are not lost when the old table is dropped.
C23_DeclaredIndexesExist ==
  \A i \in 1..MaxModels :
    (Latest(i) /\ AlteredOk(i)) =>
      LET m == models[i]
          stmts == BuildColumnIndexes(m, defs[m])
      IN  \A j \in 1..Len(stmts) :
            disk.idx[<<stmts[j].m, stmts[j].p>>] = TName(m)

\* the pieces of clause occur in text, one after the other
HasClause(text, clause) ==
  \E k \in 0..(Len(text) - Len(clause)) :
    \A n \in 1..Len(clause) : text[k + n] = clause[n]

\* a literal that is a number or consists of digits only
NumericLiteral(d) ==
  d.t = "number" \/ (d.t = "string" /\ d.s \in DOMAIN NumStr)

\* C24 (as claimed): for a Date property _getDefaultClause returns the
\* epoch-millisecond now expression for the literal "now", DEFAULT <literal>
\* for a purely numeric literal, and for any other string the error
\* 'Invalid date default' exactly when the string does not parse as a
\* calendar date.
C24_DateDefaultClause ==
  LET d == call.prop.dbDefault
  IN  (call.stage = "defined" /\ call.prop.type = "Date" /\ Truthy(d)) =>
        /\ d = JsStr("now") =>
             /\ call.def.err = NoErr
             /\ HasClause(call.def.text, <<Blank, "DEFAULT", Blank, NowExpr>>)
        /\ (d # JsStr("now") /\ NumericLiteral(d)) =>
             /\ call.def.err = NoErr
             /\ HasClause(call.def.text,
                          <<Blank, "DEFAULT", Blank, StringOf(d).s>>)
        /\ (d # JsStr("now") /\ d.t = "string" /\ ~NumericLiteral(d)) =>
             (call.def.err = "Invalid date default" <=> ~MomentIsValid(d))

\* C25 (as claimed): for a Boolean property whose default literal is not one
\* of the canonical boolean literals _getDefaultClause returns an error; for
\* a canonical literal it returns a DEFAULT clause with 1 or 0 that is
\* separated from the column type by a space.
C25_BooleanDefaultClause ==
  LET d == call.prop.dbDefault
      b == ConvertBoolean(d)
  IN  (call.stage = "defined" /\ call.prop.type = "Boolean" /\ Truthy(d)) =>
        /\ b.t = "Error" => call.def.err # NoErr
        /\ b.t # "Error" =>
             /\ call.def.err = NoErr
             /\ HasClause(call.def.text,
                          ColumnDataType(call.prop)
                            \o <<Blank, "DEFAULT", Blank, StringOf(b).s>>)

\* a declaration of a named index whose column list can be resolved
Resolvable(index) == index.columns # <<>> \/ index.kind # "none"
\* the declared columns of a named index, lower-cased and trimmed
DeclaredColumns(index) ==
  LET raw == IF index.columns # <<>> THEN Split(index.columns, <<>>)
             ELSE index.keys
  IN  [i \in 1..Len(raw) |-> Trim(ToLowerCase(raw[i]))]

\* C26 (as claimed): _buildColumnIndexes returns exactly one CREATE INDEX IF
\* NOT EXISTS statement named <model>_<property> for every property flagged
\* index, followed by exactly one statement for every named index whose
\* column list can be resolved, with the columns lower-cased, trimmed and in
\* the declared order; a named index without resolvable columns is skipped.
C26_IndexStatements ==
  call.stage = "indexed" =>
    LET flagged == SelectSeq(call.properties, LAMBDA p : p.index)
        named == SelectSeq(call.indexes, Resolvable)
    IN  /\ Len(call.stmts) = Len(flagged) + Len(named)
        /\ \A i \in 1..Len(flagged) :
             call.stmts[i] =
               IndexSql(IndexedModel \o <<"_">> \o flagged[i].name,
                        IndexedModel, <<flagged[i].name>>)
        /\ \A i \in 1..Len(named) :
             Len(call.stmts) >= Len(flagged) + i =>
               call.stmts[Len(flagged) + i] =
                 IndexSql(named[i].name, IndexedModel,
                          DeclaredColumns(named[i]))

\* the errors of the failed connection openings and BEGIN statements
BeginFailures ==
  SelectSeq(log, LAMBDA ev : ev.op \in {"open", "BEGIN"} /\ ev.e # NoErr)

\* C27: autoupdate invokes its final callback exactly once: with the error of
\* the first model that failed, after which no later model of the list is
\* processed, or without an error after every model was processed; a failure
\* of beginTransaction is reported through the same single call.
C27_FinalCallbackOnce ==
  /\ Len(final) <= 1
  /\ pend = {} <=> Len(final) = 1
  /\ \A j \in 1..Len(results) : results[j].k = j
  /\ \A j \in 1..(Len(results) - 1) : results[j].e = NoErr
  /\ Len(BeginFailures) <= 1
  /\ BeginFailures # <<>> => final = <<BeginFailures[1].e>>
  /\ final # <<>> =>
       LET n == Len(results)
           failed == IF n > 0 /\ results[n].e # NoErr THEN n ELSE n + 1
       IN  IF final[1] = NoErr
           THEN n = Len(models) /\ results[n].e = NoErr
           ELSE /\ failed <= Len(models)
                /\ \A ev \in Range(log) : ev.k <= failed
                /\ IF failed = n THEN final[1] = results[n].e
                   ELSE /\ BeginFailures # <<>>
                        /\ BeginFailures[1].k = failed

\* the first model was migrated, beginTransaction failed for the second one
\* and autoupdate has ended
C27_Witness ==
  /\ Len(models) = 2 /\ pend = {}
  /\ Len(results) >= 1 /\ results[1].e = NoErr
  /\ BeginFailures # <<>> /\ BeginFailures[1].k = 2
  /\ final = <<BeginFailures[1].e>>

\* the position in the log of the first successful catalog query of the
\* i-th call, 0 when there is none
CatalogAt(i) ==
  LET at == {n \in 1..Len(log) :
               log[n].k = i /\ log[n].op = "SELECT" /\ log[n].e = NoErr}
  IN  IF at = {} THEN 0 ELSE CHOOSE n \in at : \A o \in at : n <= o
\* the position of the first statement the i-th call executed after its
\* catalog query, 0 when there is none
BranchAt(i) ==
  LET at == {n \in (CatalogAt(i) + 1)..Len(log) :
               log[n].k = i /\ log[n].op # "open"}
  IN  IF CatalogAt(i) = 0 \/ at = {} THEN 0
      ELSE CHOOSE n \in at : \A o \in at : n <= o
\* a statement that the database executed
Executed(ev) ==
  /\ ev.e = NoErr
  /\ ev.op \in StepOps \cup {"SELECT", "BEGIN", "COMMIT", "ROLLBACK"}

\* C28 (as claimed): between the catalog query that checks whether the table
\* exists and the first statement of the chosen branch no statement of
\* another migration call for the same model is executed, and two concurrent
\* autoupdate calls for one model both finish with exactly one table under
\* the model's name, no <model>_old table and no lost row.
C28_DecisionNotStale ==
  (models[1] = models[2] /\ models[1] \in DOMAIN defs) =>
    /\ \A i \in 1..2 :
         BranchAt(i) # 0 =>
           \A n \in (CatalogAt(i) + 1)..(BranchAt(i) - 1) :
             ~(log[n].k # i /\ Executed(log[n]))
    /\ (pend = {} /\ faults = 0 /\ CatalogAt(1) # 0 /\ CatalogAt(2) # 0) =>
         LET m == models[1]
         IN  /\ disk.tbl[TName(m)].exists
             /\ ~disk.tbl[OldName(m)].exists
             /\ pre.tbl[TName(m)].exists =>
                  Len(disk.tbl[TName(m)].rows) = Len(pre.tbl[TName(m)].rows)

\* C29 (as claimed): however calls to connect and executeSQL interleave, the
\* connector opens at most one default connection, and every statement
\* executed outside a transaction uses that one connection.
C29_OneDefaultConnection ==
  calls # <<>> =>
    /\ Cardinality({c \in DOMAIN conn : conn[c] = "open"}) <= 1
    /\ \A n \in 1..Len(log) :
         log[n].op = "STMT" => log[n].c = defaultConnection
    /\ \A p \in pend : p.op = "STMT" => p.c = defaultConnection

\* C30 (as claimed): when opening the default connection fails, executeSQL
\* passes that error to its callback exactly once, executes no statement,
\* raises no exception, and leaves the connector without a default
\* connection.
C30_OpenFailureReported ==
  \A n \in 1..Len(log) :
    (/\ log[n].op = "open" /\ log[n].e # NoErr
     /\ calls[log[n].k] = "executeSQL") =>
      LET k == log[n].k
      IN  /\ SelectSeq(results, LAMBDA r : r.k = k) = <<[k |-> k, e |-> log[n].e]>>
          /\ \A ev \in Range(log) : ev.k = k => ev.op \notin {"STMT", "throw"}
          /\ \A p \in pend : p.k # k
          /\ defaultConnection # log[n].c

====
